---- MODULE Spec2Model ----
(***************************************************************************)
(* aren_alloc: a pooled allocator of small copyable values.                *)
(*                                                                         *)
(* The model follows src/src/lib.rs.  A Pool is a record with the fields   *)
(* of struct Pool; the Pools of one size class are kept in a sequence (the *)
(* heap objects of that class, the root first) and a pointer to a Pool is  *)
(* a pair [cls, idx].  Slot memory is a function from addresses to slot    *)
(* contents: a slot holds either a Node (the free-list link) or the bytes  *)
(* of a value.  Pointers are numbers; a Pointer<T>'s node field is a thin  *)
(* pointer (one word) or, after an unsizing coercion, a fat pointer (data  *)
(* word, vtable word).                                                     *)
(***************************************************************************)
EXTENDS Integers, Sequences, FiniteSets, TLC

\* ------------------------------------------------------------------ bounds
\* number of program variables that can own a Pointer
MaxVars == 2
\* largest `cap` given to Allocator::with_capacity
MaxCap == 2
\* values of a (non zero-sized) type are 1..MaxVal
MaxVal == 2
\* number of size classes a run takes out of their initial state
MaxClassesUsed == 2

\* ------------------------------------------------------------- the program
NULL == 0

\* the size classes of struct Allocator: pool8 .. pool256
Classes == {8, 16, 32, 64, 128, 256}

\* The types T handed to alloc, as (size_of, align_of).  For every class
\* its smallest and largest size (Byte128 of the test suite among them),
\* zero-sized types (one of them over-aligned), and a type beyond the
\* largest class.
Types ==
    { [size |-> 0, align |-> 1], [size |-> 0, align |-> 16],
      [size |-> 8, align |-> 8],
      [size |-> 9, align |-> 1], [size |-> 16, align |-> 16],
      [size |-> 17, align |-> 1], [size |-> 32, align |-> 8],
      [size |-> 33, align |-> 1], [size |-> 64, align |-> 8],
      [size |-> 65, align |-> 1], [size |-> 128, align |-> 8],
      [size |-> 129, align |-> 1], [size |-> 256, align |-> 8],
      [size |-> 257, align |-> 1] }

\* the only value of a zero-sized type
UnitVal == 0

Vals == 1..MaxVal

ValsOf(zst) == IF zst THEN {UnitVal} ELSE Vals

Vars == 1..MaxVars

\* A Pointer<T>: its two fields, and whether T is zero-sized (a property of
\* the static type T: a load or store of a zero-sized T touches no byte).
NoHandle == [pool |-> [cls |-> 0, idx |-> 0],
             node |-> [data |-> NULL, meta |-> NULL],
             zst |-> FALSE]

\* Option<Box<Pool>>::None
NoPool == 0

\* address of the vtable of the trait implementation (static data, outside
\* every pool buffer)
VTable == 24

\* ---------------------------------------------------------------- memory
\* the bytes of a free slot: a Node
Link(n) == [tag |-> "link", next |-> n, v |-> UnitVal]

\* the bytes of an occupied slot: a value
Val(v) == [tag |-> "val", next |-> NULL, v |-> v]

\* Address the heap gives to the idx-th buffer of class cls: buffers are
\* disjoint regions of 4096 bytes.
Base(cls, idx) == (2 * cls + (idx - 1)) * 4096

SlotAddrs(base, num, ele_size) == {base + i * ele_size : i \in 0..(num - 1)}

\* Pool::with_capacity as it would be without the loop that links each
\* slot to the one after it
WithCapacityMemUnlinked(base, num, ele_size) ==
    [a \in SlotAddrs(base, num, ele_size) |-> Link(NULL)]

\* Pool::with_capacity, lines 65-78: the buffer with its slots linked
WithCapacityMem(base, num, ele_size) ==
    [a \in SlotAddrs(base, num, ele_size) |->
        Link(IF a = base + (num - 1) * ele_size THEN NULL ELSE a + ele_size)]

\* Pool::with_capacity, lines 80-89: the Pool object, self its own address
WithCapacityPool(base, num, ele_size, self) ==
    [pool |-> [ptr |-> base, capacity |-> num * ele_size],
     head |-> base,
     ele_size |-> ele_size,
     next_pool |-> NoPool,
     tail_pool |-> self]

\* std::mem::size_of::<Node>(): one pointer
NodeSize == 8

\* usize::is_power_of_two
IsPowerOfTwo(n) == \E k \in 0..12 : n = 2 ^ k

\* the debug assertions of Pool::with_capacity, lines 61-63
WithCapacityPrecondition(num, ele_size) ==
    /\ num > 0
    /\ ele_size >= NodeSize
    /\ IsPowerOfTwo(ele_size)

\* the bytes of a slot whose Node was partly overwritten by the Node of the
\* slot after it
Torn == [tag |-> "raw", next |-> NULL, v |-> UnitVal]

\* Pool::with_capacity(num, ele_size), any arguments: the set of possible
\* outcomes; ok = FALSE is a panic or a crash.  Without debug assertions
\* num = 0 makes the loop bound num-1 wrap and the loop write through the
\* pointer of an empty Vec, and ele_size < size_of::<Node>() makes every
\* Node overlap the next slot and the last one end beyond the buffer: both
\* are undefined behaviour, which either crashes or goes unnoticed.
PoolWithCapacity(base, num, ele_size, self, dbg) ==
    LET fail == [ok |-> FALSE,
                 pool |-> WithCapacityPool(base, num, ele_size, self),
                 mem |-> <<>>]
        made(m) == [ok |-> TRUE,
                    pool |-> WithCapacityPool(base, num, ele_size, self),
                    mem |-> m]
    IN  IF dbg /\ ~WithCapacityPrecondition(num, ele_size) THEN {fail}
        ELSE IF num = 0 THEN {fail, made(<<>>)}
        ELSE IF ele_size < NodeSize
            THEN {fail,
                  made([a \in SlotAddrs(base, num, ele_size) |->
                          IF a = base + (num - 1) * ele_size
                              THEN Link(NULL) ELSE Torn])}
        ELSE {made(WithCapacityMem(base, num, ele_size))}

\* Allocator::with_capacity(cap), any cap: the set of possible outcomes
AllocatorWithCapacity(cap, dbg) ==
    LET outs(cls) == PoolWithCapacity(Base(cls, 1), cap, cls, 1, dbg)
        made(cls) == CHOOSE r \in outs(cls) : r.ok
    IN  { [ok |-> FALSE, pools |-> <<>>, mem |-> <<>>] : x \in
              {cls \in Classes : \E r \in outs(cls) : ~r.ok} }
        \cup
        { [ok |-> TRUE,
           pools |-> [cls \in Classes |-> <<made(cls).pool>>],
           mem |-> [a \in UNION {DOMAIN made(cls).mem : cls \in Classes} |->
                      LET cls == CHOOSE c \in Classes : a \in DOMAIN made(c).mem
                      IN  made(cls).mem[a]]] : x \in
              {c \in {8} : \A cls \in Classes : \E r \in outs(cls) : r.ok} }

VARIABLES
    debug,      \* the build has debug assertions enabled
    pools,      \* pools[cls]: the Pool objects of class cls, root first
    mem,        \* slot address -> slot contents
    vars,       \* program variable -> the Pointer it owns, or NoHandle
    live,       \* history: slots handed out by alloc and not yet recycled
    released,   \* history: per class, the slots recycled and not handed out
                \* again since, the most recent first
    ev,         \* history: the last operation and what it did
    peak        \* history: per class, the largest number of handles that
                \* were live at once; kept by the workload that measures it

vars_all == <<debug, pools, mem, vars, live, released, ev, peak>>

\* ------------------------------------------------------------------ Pool
\* What a slot's first word reads as when taken for a Node: the link when
\* the slot holds one, any bit pattern otherwise.
NextOf(m, a) ==
    IF a \in DOMAIN m /\ m[a].tag = "link"
        THEN {m[a].next}
        ELSE DOMAIN m \cup {NULL}

\* Pool::extend as it would be if growth linked the slots of the buffer the
\* Pool already has instead of those of a new one
ExtendRelink(ps, m, p, dbg) ==
    LET self == ps[p.cls][p.idx]
        tail == self.tail_pool
        num == self.pool.capacity \div self.ele_size
        newidx == Len(ps[p.cls]) + 1
        base == self.pool.ptr
        next_pool == WithCapacityPool(base, num, self.ele_size, newidx)
        boxed == [ps EXCEPT ![p.cls] = Append(@, next_pool)]
        redirected == [boxed EXCEPT ![p.cls][p.idx].head = next_pool.head,
                                    ![p.cls][p.idx].tail_pool = newidx]
        spliced == [redirected EXCEPT ![p.cls][tail].next_pool = newidx]
    IN  IF self.head /= NULL
            THEN [ok |-> TRUE, pools |-> ps, mem |-> m]
        ELSE [ok |-> TRUE, pools |-> spliced,
              mem |-> WithCapacityMem(base, num, self.ele_size) @@ m]

\* Pool::extend as it would be if the cursor were not redirected to the new
\* buffer's first slot
ExtendNoRedirect(ps, m, p, dbg) ==
    LET self == ps[p.cls][p.idx]
        tail == self.tail_pool
        num == self.pool.capacity \div self.ele_size
        newidx == Len(ps[p.cls]) + 1
        base == Base(p.cls, newidx)
        next_pool == WithCapacityPool(base, num, self.ele_size, newidx)
        boxed == [ps EXCEPT ![p.cls] = Append(@, next_pool)]
        redirected == [boxed EXCEPT ![p.cls][p.idx].tail_pool = newidx]
        spliced == [redirected EXCEPT ![p.cls][tail].next_pool = newidx]
    IN  IF self.head /= NULL
            THEN [ok |-> TRUE, pools |-> ps, mem |-> m]
        ELSE [ok |-> TRUE, pools |-> spliced,
              mem |-> m @@ WithCapacityMem(base, num, self.ele_size)]

\* Pool::extend as it would be if the capacity in bytes were taken for the
\* number of slots of the new buffer
ExtendNumBytes(ps, m, p, dbg) ==
    LET self == ps[p.cls][p.idx]
        tail == self.tail_pool
        num == self.pool.capacity
        newidx == Len(ps[p.cls]) + 1
        base == Base(p.cls, newidx)
        next_pool == WithCapacityPool(base, num, self.ele_size, newidx)
        boxed == [ps EXCEPT ![p.cls] = Append(@, next_pool)]
        redirected == [boxed EXCEPT ![p.cls][p.idx].head = next_pool.head,
                                    ![p.cls][p.idx].tail_pool = newidx]
        spliced == [redirected EXCEPT ![p.cls][tail].next_pool = newidx]
    IN  IF self.head /= NULL
            THEN [ok |-> TRUE, pools |-> ps, mem |-> m]
        ELSE [ok |-> TRUE, pools |-> spliced,
              mem |-> m @@ WithCapacityMem(base, num, self.ele_size)]

\* Pool::extend as it would be if the tail marker were left at the old tail
ExtendKeepTail(ps, m, p, dbg) ==
    LET self == ps[p.cls][p.idx]
        tail == self.tail_pool
        num == self.pool.capacity \div self.ele_size
        newidx == Len(ps[p.cls]) + 1
        base == Base(p.cls, newidx)
        next_pool == WithCapacityPool(base, num, self.ele_size, newidx)
        boxed == [ps EXCEPT ![p.cls] = Append(@, next_pool)]
        redirected == [boxed EXCEPT ![p.cls][p.idx].head = next_pool.head]
        spliced == [redirected EXCEPT ![p.cls][tail].next_pool = newidx]
    IN  IF self.head /= NULL
            THEN [ok |-> TRUE, pools |-> ps, mem |-> m]
        ELSE IF dbg /\ ps[p.cls][tail].next_pool /= NoPool
            THEN [ok |-> FALSE, pools |-> ps, mem |-> m]
        ELSE [ok |-> TRUE, pools |-> spliced,
              mem |-> m @@ WithCapacityMem(base, num, self.ele_size)]

\* Pool::extend on the Pool at p.  ok is FALSE when the debug assertion of
\* line 111 fails.
Extend(ps, m, p, dbg) ==
    LET self == ps[p.cls][p.idx]
        tail == self.tail_pool
        num == self.pool.capacity \div self.ele_size
        newidx == Len(ps[p.cls]) + 1
        base == Base(p.cls, newidx)
        next_pool == WithCapacityPool(base, num, self.ele_size, newidx)
        boxed == [ps EXCEPT ![p.cls] = Append(@, next_pool)]
        redirected == [boxed EXCEPT ![p.cls][p.idx].head = next_pool.head,
                                    ![p.cls][p.idx].tail_pool = newidx]
        spliced == [redirected EXCEPT ![p.cls][tail].next_pool = newidx]
    IN  IF self.head /= NULL
            THEN [ok |-> TRUE, pools |-> ps, mem |-> m]
        ELSE IF dbg /\ ps[p.cls][tail].next_pool /= NoPool
            THEN [ok |-> FALSE, pools |-> ps, mem |-> m]
        ELSE [ok |-> TRUE, pools |-> spliced,
              mem |-> m @@ WithCapacityMem(base, num, self.ele_size)]

\* the debug assertions of Pool::alloc, lines 93-94
AllocPrecondition(self, ty) ==
    /\ ty.size <= self.ele_size
    /\ self.ele_size % ty.align = 0

\* Pool::alloc as it would be if the cursor were not advanced past the
\* slot handed out
PoolAllocNoPop(ps, m, p, ty, dbg) ==
    LET self == ps[p.cls][p.idx]
        e == IF self.head = NULL THEN Extend(ps, m, p, dbg)
                                 ELSE [ok |-> TRUE, pools |-> ps, mem |-> m]
        lasthead == e.pools[p.cls][p.idx].head
    IN  { [ok |-> TRUE, pools |-> e.pools, mem |-> e.mem, node |-> lasthead,
           grew |-> (self.head = NULL)] }

\* Pool::alloc::<T> on the Pool at p: the set of possible outcomes.  An
\* outcome with ok = FALSE is a panic.
PoolAlloc(ps, m, p, ty, dbg) ==
    LET self == ps[p.cls][p.idx]
        e == IF self.head = NULL THEN Extend(ps, m, p, dbg)
                                 ELSE [ok |-> TRUE, pools |-> ps, mem |-> m]
        lasthead == e.pools[p.cls][p.idx].head
        panic == [ok |-> FALSE, pools |-> ps, mem |-> m, node |-> NULL,
                  grew |-> FALSE]
    IN  IF dbg /\ ~AllocPrecondition(self, ty) THEN {panic}
        ELSE IF ~e.ok \/ lasthead = NULL THEN {panic}
        ELSE { [ok |-> TRUE,
                pools |-> [e.pools EXCEPT ![p.cls][p.idx].head = nexthead],
                mem |-> e.mem,
                node |-> lasthead,
                grew |-> (self.head = NULL)] :
               nexthead \in NextOf(e.mem, lasthead) }

\* Pool::recycle as it would be if the slot were pushed on the cursor of the
\* Pool the tail marker designates
RecycleOnTail(ps, m, p, node) ==
    LET t == ps[p.cls][p.idx].tail_pool
    IN  IF node = NULL
            THEN [ok |-> FALSE, pools |-> ps, mem |-> m]
            ELSE [ok |-> TRUE,
                  pools |-> [ps EXCEPT ![p.cls][t].head = node],
                  mem |-> IF node \in DOMAIN m
                            THEN [m EXCEPT ![node] = Link(ps[p.cls][t].head)]
                            ELSE m]

\* Pool::recycle as it would be if the old cursor were not stored in the
\* recycled slot
RecycleNoLink(ps, m, p, node) ==
    IF node = NULL
        THEN [ok |-> FALSE, pools |-> ps, mem |-> m]
        ELSE [ok |-> TRUE,
              pools |-> [ps EXCEPT ![p.cls][p.idx].head = node],
              mem |-> m]

\* Pool::recycle as it would be if the cursor were not moved to the
\* recycled slot
RecycleNoPush(ps, m, p, node) ==
    IF node = NULL
        THEN [ok |-> FALSE, pools |-> ps, mem |-> m]
        ELSE [ok |-> TRUE,
              pools |-> ps,
              mem |-> IF node \in DOMAIN m
                        THEN [m EXCEPT ![node] = Link(ps[p.cls][p.idx].head)]
                        ELSE m]

\* Pool::recycle(node) on the Pool at p
Recycle(ps, m, p, node) ==
    IF node = NULL
        THEN [ok |-> FALSE, pools |-> ps, mem |-> m]
        ELSE [ok |-> TRUE,
              pools |-> [ps EXCEPT ![p.cls][p.idx].head = node],
              mem |-> IF node \in DOMAIN m
                        THEN [m EXCEPT ![node] = Link(ps[p.cls][p.idx].head)]
                        ELSE m]

\* --------------------------------------------------------------- Pointer
\* the words of a *mut T in memory: data first, then the vtable of a
\* trait object
Layout(node) ==
    IF node.meta = NULL THEN <<node.data>> ELSE <<node.data, node.meta>>

\* transmute_copy as it would be if the data address were not the first word
\* of a fat pointer
TransmuteCopyLast(node) == Layout(node)[Len(Layout(node))]

\* std::mem::transmute_copy::<*mut T, *mut Node>: the first word of the source
TransmuteCopy(node) == Layout(node)[1]

\* the unsizing coercion Pointer<U> -> Pointer<T>, U: Unsize<T>
Coerce(h) == [h EXCEPT !.node.meta = VTable]

\* Pointer::as_ref: the values *ptr can read
ReadSet(m, h) ==
    IF h.zst THEN {UnitVal}
    ELSE IF h.node.data \in DOMAIN m /\ m[h.node.data].tag = "val"
        THEN {m[h.node.data].v}
        ELSE Vals

\* Pointer::as_mut followed by a store of v
WriteMem(m, h, v) ==
    IF h.zst \/ h.node.data \notin DOMAIN m
        THEN m
        ELSE [m EXCEPT ![h.node.data] = Val(v)]

\* ------------------------------------------------------------- Allocator
\* the ladder with strict comparisons
RouteStrict(ele_size) ==
    IF ele_size < 8 THEN 8
    ELSE IF ele_size < 16 THEN 16
    ELSE IF ele_size < 32 THEN 32
    ELSE IF ele_size < 64 THEN 64
    ELSE IF ele_size < 128 THEN 128
    ELSE IF ele_size < 256 THEN 256
    ELSE 0

\* the ladder with the largest class as its last branch
RouteNoPanic(ele_size) ==
    IF ele_size <= 8 THEN 8
    ELSE IF ele_size <= 16 THEN 16
    ELSE IF ele_size <= 32 THEN 32
    ELSE IF ele_size <= 64 THEN 64
    ELSE IF ele_size <= 128 THEN 128
    ELSE 256

\* the threshold ladder of Allocator::alloc; 0 stands for the panic branch
Route(ele_size) ==
    IF ele_size <= 8 THEN 8
    ELSE IF ele_size <= 16 THEN 16
    ELSE IF ele_size <= 32 THEN 32
    ELSE IF ele_size <= 64 THEN 64
    ELSE IF ele_size <= 128 THEN 128
    ELSE IF ele_size <= 256 THEN 256
    ELSE 0

\* every branch of the ladder calling pool8
RootPool8(cls) == [cls |-> 8, idx |-> 1]

\* the root Pool of a class: the Box held by the Allocator
Root(cls) == [cls |-> cls, idx |-> 1]

\* Allocator::alloc(elem): the set of possible outcomes
AllocatorAlloc(ps, m, ty, elem, dbg) ==
    LET cls == Route(ty.size)
    IN  IF cls = 0
            THEN { [ok |-> FALSE, pools |-> ps, mem |-> m, handle |-> NoHandle,
                    cls |-> 0, grew |-> FALSE] }
            ELSE { LET ret == [pool |-> Root(cls),
                               node |-> [data |-> r.node, meta |-> NULL],
                               zst |-> (ty.size = 0)]
                   IN  [ok |-> r.ok,
                        pools |-> r.pools,
                        mem |-> IF r.ok THEN WriteMem(r.mem, ret, elem) ELSE r.mem,
                        handle |-> IF r.ok THEN ret ELSE NoHandle,
                        cls |-> cls,
                        grew |-> r.grew] :
                   r \in PoolAlloc(ps, m, Root(cls), ty, dbg) }

\* Allocator::with_capacity(cap)
AllocatorPools(cap) ==
    [cls \in Classes |-> <<WithCapacityPool(Base(cls, 1), cap, cls, 1)>>]

AllocatorMem(cap) ==
    [a \in UNION {SlotAddrs(Base(cls, 1), cap, cls) : cls \in Classes} |->
        LET cls == CHOOSE c \in Classes : a \in SlotAddrs(Base(c, 1), cap, c)
        IN  WithCapacityMem(Base(cls, 1), cap, cls)[a]]

\* DEFAULT_POOL_SIZE: the bytes of a default buffer
DEFAULT_POOL_SIZE == 4096

\* the debug assertions of Pool::new, lines 55-56
PoolNewPrecondition(ele_size) ==
    /\ DEFAULT_POOL_SIZE % ele_size = 0
    /\ ele_size <= DEFAULT_POOL_SIZE

\* Pool::new as it would be if every class were given the slot count of
\* the smallest one
PoolNewNumFlat(ele_size) == DEFAULT_POOL_SIZE \div 8

\* Pool::new, line 57: the number of slots handed to Pool::with_capacity
PoolNewNum(ele_size) == DEFAULT_POOL_SIZE \div ele_size

\* Allocator::new()
AllocatorNewPools ==
    [cls \in Classes |->
        <<WithCapacityPool(Base(cls, 1), PoolNewNum(cls), cls, 1)>>]

AllocatorNewMem ==
    [a \in UNION {SlotAddrs(Base(cls, 1), PoolNewNum(cls), cls) :
                     cls \in Classes} |->
        LET cls == CHOOSE c \in Classes :
                       a \in SlotAddrs(Base(c, 1), PoolNewNum(c), c)
        IN  WithCapacityMem(Base(cls, 1), PoolNewNum(cls), cls)[a]]

\* ------------------------------------------------------------ operations
NoType == [size |-> 0, align |-> 1]

NoEvent == [op |-> "init", var |-> 0, cls |-> 0, addr |-> NULL, ty |-> NoType,
            val |-> UnitVal, grew |-> FALSE, fat |-> FALSE]

Ev(op, x, cls, addr, ty, val, grew, fat) ==
    [op |-> op, var |-> x, cls |-> cls, addr |-> addr, ty |-> ty, val |-> val,
     grew |-> grew, fat |-> fat]

\* `let allocator = Allocator::with_capacity(cap);`
Init ==
    /\ debug \in BOOLEAN
    /\ \E cap \in 1..MaxCap :
        /\ pools = AllocatorPools(cap)
        /\ mem = AllocatorMem(cap)
    /\ vars = [x \in Vars |-> NoHandle]
    /\ live = {}
    /\ released = [cls \in Classes |-> <<>>]
    /\ ev = NoEvent
    /\ peak = [cls \in Classes |-> 0]

\* `let x = allocator.alloc(elem);` with elem: ty; the peak history aside
AllocStep(x, ty, elem) ==
    /\ vars[x] = NoHandle
    /\ \E r \in AllocatorAlloc(pools, mem, ty, elem, debug) :
        /\ pools' = r.pools
        /\ mem' = r.mem
        /\ vars' = IF r.ok THEN [vars EXCEPT ![x] = r.handle] ELSE vars
        /\ live' = IF r.ok THEN live \cup {r.handle.node.data} ELSE live
        /\ released' = IF r.ok /\ released[r.cls] /= <<>>
                          THEN [released EXCEPT ![r.cls] = Tail(@)]
                          ELSE released
        /\ ev' = Ev(IF r.ok THEN "alloc" ELSE "panic", IF r.ok THEN x ELSE 0,
                    r.cls, r.handle.node.data, ty, elem, r.grew, FALSE)
    /\ UNCHANGED debug

\* `let x = allocator.alloc(elem);` with elem: ty
Alloc(x, ty, elem) == AllocStep(x, ty, elem) /\ UNCHANGED peak

\* the slot recycled on the Pool of the buffer it lies in, not on the root
DropResultOwnBuffer(ps, m, h) ==
    LET node == TransmuteCopy(h.node)
        own == {i \in 1..Len(ps[h.pool.cls]) :
                   /\ node >= ps[h.pool.cls][i].pool.ptr
                   /\ node < ps[h.pool.cls][i].pool.ptr
                                + ps[h.pool.cls][i].pool.capacity}
        idx == IF own = {} THEN h.pool.idx ELSE CHOOSE i \in own : TRUE
    IN  Recycle(ps, m, [cls |-> h.pool.cls, idx |-> idx], node)

\* Drop for Pointer: the state of the pools after `drop(h)`
DropResult(ps, m, h) == Recycle(ps, m, h.pool, TransmuteCopy(h.node))

\* x goes out of scope
Drop(x) ==
    /\ vars[x] /= NoHandle
    /\ LET h == vars[x]
           r == DropResult(pools, mem, h)
       IN  /\ pools' = r.pools
           /\ mem' = r.mem
           /\ vars' = [vars EXCEPT ![x] = NoHandle]
           /\ live' = live \ {TransmuteCopy(h.node)}
           /\ released' = [released EXCEPT
                             ![h.pool.cls] = <<TransmuteCopy(h.node)>> \o @]
           /\ ev' = Ev("drop", 0, h.pool.cls, TransmuteCopy(h.node), NoType,
                       UnitVal, FALSE, h.node.meta /= NULL)
    /\ UNCHANGED <<debug, peak>>

\* a transfer that leaves the source usable: a copy
MoveVarsCopy(vs, x, y) == [vs EXCEPT ![y] = vs[x]]

\* `let y = x;`: the Pointer is moved, x is left inert
MoveVars(vs, x, y) == [vs EXCEPT ![y] = vs[x], ![x] = NoHandle]

Move(x, y) ==
    /\ x /= y
    /\ vars[x] /= NoHandle
    /\ vars[y] = NoHandle
    /\ vars' = MoveVars(vars, x, y)
    /\ ev' = Ev("move", y, vars[x].pool.cls, vars[x].node.data, NoType,
                UnitVal, FALSE, FALSE)
    /\ UNCHANGED <<debug, pools, mem, live, released, peak>>

\* `let x: Pointer<Trait> = x;`: the handle is narrowed to a trait view
Narrow(x) ==
    /\ vars[x] /= NoHandle
    /\ vars[x].node.meta = NULL
    /\ vars' = [vars EXCEPT ![x] = Coerce(vars[x])]
    /\ ev' = Ev("narrow", x, vars[x].pool.cls, vars[x].node.data, NoType,
                UnitVal, FALSE, FALSE)
    /\ UNCHANGED <<debug, pools, mem, live, released, peak>>

\* `*x = v;`
Write(x, v) ==
    /\ vars[x] /= NoHandle
    /\ v \in ValsOf(vars[x].zst)
    /\ mem' = WriteMem(mem, vars[x], v)
    /\ ev' = Ev("write", x, vars[x].pool.cls, vars[x].node.data, NoType,
                v, FALSE, FALSE)
    /\ UNCHANGED <<debug, pools, vars, live, released, peak>>

\* a size class that is as Allocator::with_capacity left it
Pristine(cls) ==
    LET cap == pools[cls][1].pool.capacity \div cls
        fresh == WithCapacityMem(Base(cls, 1), cap, cls)
    IN  /\ released[cls] = <<>>
        /\ pools[cls] = AllocatorPools(cap)[cls]
        /\ \A a \in DOMAIN fresh : mem[a] = fresh[a]

\* the types the bound on the classes in use admits an allocation of
TypesWithinBound ==
    LET used == {cls \in Classes : ~Pristine(cls)}
    IN  {ty \in Types : \/ Route(ty.size) = 0
                        \/ Route(ty.size) \in used
                        \/ Cardinality(used) < MaxClassesUsed}

Next ==
    \/ \E ty \in TypesWithinBound : \E x \in Vars, elem \in ValsOf(ty.size = 0) :
            Alloc(x, ty, elem)
    \/ \E x \in Vars : Drop(x)
    \/ \E x, y \in Vars : Move(x, y)
    \/ \E x \in Vars : Narrow(x)
    \/ \E x \in Vars, v \in Vals \cup {UnitVal} : Write(x, v)

Spec == Init /\ [][Next]_vars_all

\* --------------------------------------------- the test suite's workload
\* number of program variables of the workload
MaxChurnVars == 3

\* Byte15 and Byte128 of the test suite
ChurnTypes == { [size |-> 15, align |-> 1], [size |-> 128, align |-> 8] }

\* `let allocator = Allocator::with_capacity(cap);`
InitChurn ==
    /\ debug \in BOOLEAN
    /\ \E cap \in 1..MaxCap :
        /\ pools = AllocatorPools(cap)
        /\ mem = AllocatorMem(cap)
    /\ vars = [x \in 1..MaxChurnVars |-> NoHandle]
    /\ live = {}
    /\ released = [cls \in Classes |-> <<>>]
    /\ ev = NoEvent
    /\ peak = [cls \in Classes |-> 0]

\* Values of the two types are allocated, overwritten and released.  The
\* names of the variables do not matter: a new handle goes to the first
\* one that is free.
NextChurn ==
    \/ \E ty \in ChurnTypes, elem \in Vals, x \in DOMAIN vars :
            /\ \A y \in DOMAIN vars : y < x => vars[y] /= NoHandle
            /\ Alloc(x, ty, elem)
    \/ \E x \in DOMAIN vars : Drop(x)
    \/ \E x \in DOMAIN vars, v \in Vals : Write(x, v)

SpecChurn == InitChurn /\ [][NextChurn]_vars_all

\* ------------------------------------------------------------ properties
LiveVars == {x \in DOMAIN vars : vars[x] /= NoHandle}

\* the slots on the free list that starts at address a, in list order; the
\* walk stops at a slot that holds no link
RECURSIVE FreeSeq(_, _, _)
FreeSeq(m, a, fuel) ==
    IF a = NULL \/ fuel = 0 THEN <<>>
    ELSE IF a \notin DOMAIN m \/ m[a].tag /= "link" THEN <<a>>
    ELSE <<a>> \o FreeSeq(m, m[a].next, fuel - 1)

\* the free list of a class: the list at the root's cursor
FreeListOf(ps, m, cls) == FreeSeq(m, ps[cls][1].head, Cardinality(DOMAIN m) + 1)

FreeList(cls) == FreeListOf(pools, mem, cls)

Range(q) == {q[i] : i \in 1..Len(q)}

\* the slots of all buffers in the chain of a class
ChainSlots(ps, cls) ==
    UNION { SlotAddrs(ps[cls][i].pool.ptr,
                      ps[cls][i].pool.capacity \div ps[cls][i].ele_size,
                      ps[cls][i].ele_size) : i \in 1..Len(ps[cls]) }

\* C1: no two live handles of one size class hold the same slot address,
\* and the slot of a live handle is not reachable from the free-list cursor
\* of its class.
C1_LiveSlotsExclusive ==
    /\ \A x, y \in LiveVars :
          (x /= y /\ vars[x].pool.cls = vars[y].pool.cls)
              => vars[x].node.data /= vars[y].node.data
    /\ \A x \in LiveVars :
          vars[x].node.data \notin Range(FreeList(vars[x].pool.cls))

\* a handle has just been released in a grown class while another handle
\* of that class is live
C1_Witness ==
    /\ ev.op = "drop"
    /\ Len(pools[ev.cls]) > 1
    /\ \E x \in LiveVars : vars[x].pool.cls = ev.cls
    /\ ev.addr \in Range(FreeList(ev.cls))

\* C2: a step leaves the slot address of every handle, and the value read
\* through it, as they were, unless the step is a write through that handle;
\* this covers allocations and releases of other handles and growth of the
\* chain.  A write through a handle changes no other slot.
C2_Frame ==
    [][ /\ \A x \in DOMAIN vars :
              (vars[x] /= NoHandle /\ vars'[x] /= NoHandle)
                  => /\ vars'[x].node.data = vars[x].node.data
                     /\ \/ ev'.op = "write" /\ ev'.var = x
                        \/ ReadSet(mem', vars'[x]) = ReadSet(mem, vars[x])
        /\ (ev'.op = "write")
              => \A a \in DOMAIN mem : a /= ev'.addr => mem'[a] = mem[a]
      ]_vars_all

\* the chain of a class with buffers of two slots has just grown: three
\* values of the class are live, more than one buffer holds, and the two
\* older ones read as distinct values
C2_Witness ==
    /\ ev.op = "alloc"
    /\ ev.grew
    /\ pools[ev.cls][1].pool.capacity \div ev.cls = 2
    /\ \E x, y \in LiveVars \ {ev.var} :
          /\ x /= y
          /\ vars[x].pool.cls = ev.cls
          /\ vars[y].pool.cls = ev.cls
          /\ ReadSet(mem, vars[x]) = {1}
          /\ ReadSet(mem, vars[y]) = {2}

\* C3 (as claimed): every call of Allocator.alloc with a value v of a type
\* of at most 256 bytes returns a handle, and reading through that handle
\* right after the call yields v.
C3_RoundTrip ==
    (ev.op \in {"alloc", "panic"} /\ ev.ty.size <= 256)
        => /\ ev.op = "alloc"
           /\ ReadSet(mem, vars[ev.var]) = {ev.val}

\* C4: an allocation in a class that has released slots not yet handed out
\* again returns the most recently released of them and does not grow the
\* chain; so k releases followed by k allocations return the slots in
\* reverse release order, whatever buffer each slot lies in.
C4_Lifo ==
    [][ (ev'.op = "alloc" /\ released[ev'.cls] /= <<>>)
            => /\ ev'.addr = Head(released[ev'.cls])
               /\ ~ev'.grew
               /\ pools'[ev'.cls][1].head =
                     IF Len(released[ev'.cls]) > 1
                         THEN released[ev'.cls][2]
                         ELSE pools'[ev'.cls][1].head
      ]_vars_all

\* two slots of different buffers were released; the later released one has
\* just been handed out again and the earlier one is next
C4_Witness ==
    /\ ev.op = "alloc"
    /\ Len(pools[ev.cls]) = 2
    /\ Len(released[ev.cls]) = 1
    /\ ev.addr \in SlotAddrs(pools[ev.cls][2].pool.ptr,
                             pools[ev.cls][2].pool.capacity \div ev.cls, ev.cls)
    /\ released[ev.cls][1] \in
          SlotAddrs(pools[ev.cls][1].pool.ptr,
                    pools[ev.cls][1].pool.capacity \div ev.cls, ev.cls)
    /\ pools[ev.cls][1].head = released[ev.cls][1]

\* what an allocation in class cls would return: whether it succeeds, where,
\* and whether it grows the chain
AllocOutcome(ps, m, cls, dbg) ==
    { <<r.ok, r.node, r.grew>> :
        r \in PoolAlloc(ps, m, Root(cls), [size |-> cls, align |-> 1], dbg) }

\* C5: an operation in one size class leaves the Pool objects (cursor, chain,
\* tail marker) and the slot contents of every other class unchanged, and
\* with them whether and where an allocation in another class is served.
C5_ClassIsolation ==
    [][ \A cls \in Classes \ {ev'.cls} :
            /\ pools'[cls] = pools[cls]
            /\ \A a \in ChainSlots(pools, cls) :
                  a \in DOMAIN mem' /\ mem'[a] = mem[a]
            /\ AllocOutcome(pools', mem', cls, debug)
                  = AllocOutcome(pools, mem, cls, debug)
      ]_vars_all

\* a class has just exhausted its buffer and grown while a handle of
\* another class, whose chain has grown before, is live
C5_Witness ==
    /\ ev.op = "alloc"
    /\ ev.grew
    /\ \E x \in LiveVars :
          /\ vars[x].pool.cls /= ev.cls
          /\ Len(pools[vars[x].pool.cls]) > 1
          /\ released[vars[x].pool.cls] /= <<>>

\* the smallest class that holds s bytes
SmallestClass(s) ==
    CHOOSE c \in Classes : c >= s /\ \A d \in Classes : d >= s => c <= d

\* C6: a value of size s <= 256 is served by the root Pool of the smallest
\* class c >= s, so the size precondition of Pool::alloc holds on the call.
C6_Routing ==
    (ev.op \in {"alloc", "panic"} /\ ev.ty.size <= 256)
        => /\ ev.cls = SmallestClass(ev.ty.size)
           /\ ev.ty.size <= pools[ev.cls][1].ele_size
           /\ pools[ev.cls][1].ele_size = ev.cls
           /\ (ev.op = "alloc")
                 => /\ vars[ev.var].pool = [cls |-> ev.cls, idx |-> 1]
                    /\ ev.addr \in ChainSlots(pools, ev.cls)

\* a value one byte larger than a class has been allocated
C6_Witness ==
    /\ ev.op = "alloc"
    /\ ev.ty.size = 129
    /\ ev.cls = 256

\* C7: Allocator.alloc of a type of more than 256 bytes panics, returns no
\* handle and changes no Pool, no slot and no handle.
C7_TooBigPanics ==
    [][ (ev'.op \in {"alloc", "panic"} /\ ev'.ty.size > 256)
            => /\ ev'.op = "panic"
               /\ pools' = pools
               /\ mem' = mem
               /\ vars' = vars
      ]_vars_all

C7_Witness ==
    /\ ev.op = "panic"
    /\ ev.ty.size > 256
    /\ LiveVars /= {}
    /\ \E cls \in Classes : Len(pools[cls]) > 1

\* the handles held by the variables are those of the slots handed out and
\* not yet recycled, one handle for each
HandlesMatchLive(vs, lv) ==
    /\ \A x \in DOMAIN vs : vs[x] /= NoHandle => vs[x].node.data \in lv
    /\ \A a \in lv : Cardinality({x \in DOMAIN vs : vs[x].node.data = a}) = 1

\* C9: a release recycles the handle's own slot once, on the root Pool of
\* the class that issued it, and the handle is gone afterwards; a transfer
\* of ownership recycles nothing and leaves one owner; allocations and
\* releases of a slot alternate: a slot is handed out only when it is not
\* held, and released only when it is.
C9_ExactlyOnce ==
    [][ /\ HandlesMatchLive(vars', live')
        /\ (ev'.op = "alloc") => ev'.addr \notin live
        /\ (ev'.op = "drop")
              => /\ ev'.addr \in live
                 /\ ev'.addr \in ChainSlots(pools, ev'.cls)
                 /\ \E x \in DOMAIN vars :
                       /\ vars[x] /= NoHandle
                       /\ vars[x].node.data = ev'.addr
                       /\ vars[x].pool = [cls |-> ev'.cls, idx |-> 1]
                       /\ vars' = [vars EXCEPT ![x] = NoHandle]
                 /\ pools' = [pools EXCEPT ![ev'.cls][1].head = ev'.addr]
                 /\ mem' = [mem EXCEPT
                              ![ev'.addr] = Link(pools[ev'.cls][1].head)]
        /\ (ev'.op = "move") => (pools' = pools /\ mem' = mem /\ live' = live)
      ]_vars_all

\* a handle has been released: its slot is at the cursor and no variable
\* holds it
C9_Witness ==
    /\ ev.op = "drop"
    /\ ev.addr \notin live
    /\ pools[ev.cls][1].head = ev.addr
    /\ \A x \in DOMAIN vars : vars[x].node.data /= ev.addr

\* C10: the release of a narrowed handle leaves the pools as the release of
\* the same handle without the narrowing would: its data address is pushed
\* on the cursor of the issuing class, whose next allocation returns it.
C10_NarrowedRelease ==
    [][ \A x \in DOMAIN vars :
          (ev'.op = "drop" /\ vars[x] /= NoHandle /\ vars'[x] = NoHandle
           /\ vars[x].node.meta /= NULL)
              => LET h == vars[x]
                     thin == [h EXCEPT !.node.meta = NULL]
                     r == DropResult(pools, mem, thin)
                 IN  /\ pools' = r.pools
                     /\ mem' = r.mem
                     /\ ev'.addr = h.node.data
                     /\ h.node.data \in ChainSlots(pools, h.pool.cls)
                     /\ FreeListOf(pools', mem', h.pool.cls)
                           = <<h.node.data>> \o FreeList(h.pool.cls)
                     /\ AllocOutcome(pools', mem', h.pool.cls, debug)
                           = {<<TRUE, h.node.data, FALSE>>}
      ]_vars_all

\* a narrowed handle has just been released
C10_Witness ==
    /\ ev.op = "drop"
    /\ ev.fat
    /\ pools[ev.cls][1].head = ev.addr
    /\ ev.addr \in ChainSlots(pools, ev.cls)

\* ------------------------------------------------- a Pool used directly
\* `let allocator = Pool::with_capacity(num, ele_size);`
InitPool ==
    /\ debug \in BOOLEAN
    /\ \E num \in 1..MaxCap, ele_size \in Classes :
        /\ pools = [cls \in {ele_size} |->
                       <<WithCapacityPool(Base(ele_size, 1), num, ele_size, 1)>>]
        /\ mem = WithCapacityMem(Base(ele_size, 1), num, ele_size)
        /\ released = [cls \in {ele_size} |-> <<>>]
    /\ vars = [x \in Vars |-> NoHandle]
    /\ live = {}
    /\ ev = NoEvent
    /\ peak = [cls \in Classes |-> 0]

\* `let x: Pointer<T> = allocator.alloc();` with T: ty, on the Pool itself
AllocDirect(x, ty) ==
    /\ vars[x] = NoHandle
    /\ \E cls \in DOMAIN pools :
       \E r \in PoolAlloc(pools, mem, Root(cls), ty, debug) :
        /\ pools' = r.pools
        /\ mem' = r.mem
        /\ vars' = IF r.ok
                     THEN [vars EXCEPT ![x] =
                             [pool |-> Root(cls),
                              node |-> [data |-> r.node, meta |-> NULL],
                              zst |-> (ty.size = 0)]]
                     ELSE vars
        /\ live' = IF r.ok THEN live \cup {r.node} ELSE live
        /\ released' = IF r.ok /\ released[cls] /= <<>>
                          THEN [released EXCEPT ![cls] = Tail(@)]
                          ELSE released
        /\ ev' = Ev(IF r.ok THEN "alloc" ELSE "panic", IF r.ok THEN x ELSE 0,
                    cls, r.node, ty, UnitVal, r.grew, FALSE)
    /\ UNCHANGED <<debug, peak>>

NextPool ==
    \/ \E x \in Vars, ty \in Types : AllocDirect(x, ty)
    \/ \E x \in Vars : Drop(x)

SpecPool == InitPool /\ [][NextPool]_vars_all

\* C8 (as claimed): Pool::alloc::<T> with size_of::<T>() above the Pool's
\* ele_size panics, returns no handle, and leaves the cursor, the chain and
\* the handles as they were.
C8_OversizeFatal ==
    [][ (ev'.op \in {"alloc", "panic"}
         /\ ev'.ty.size > pools[ev'.cls][1].ele_size)
            => /\ ev'.op = "panic"
               /\ pools' = pools
               /\ vars' = vars
      ]_vars_all

\* ------------------------------------------- growth and the chain of buffers
\* the slots held by the live handles of a class
ClassLive(cls) ==
    {vars[x].node.data : x \in {y \in LiveVars : vars[y].pool.cls = cls}}

\* the types of the workload that class cls serves
FitTypes(cls) == {ty \in ChurnTypes \cup {[size |-> cls, align |-> 8]} :
                     Route(ty.size) = cls}

\* C11: in every reachable state an allocation of a type that fits its
\* class returns a slot of the chain that no live handle holds; when the
\* cursor is empty, growth runs, succeeds and leaves the cursor non-empty,
\* so the assertion before the pop holds; no allocation has ended in a panic.
C11_AllocNeverFails ==
    /\ ev.op /= "panic"
    /\ \A cls \in DOMAIN pools :
          /\ \A ty \in FitTypes(cls) :
             \A r \in PoolAlloc(pools, mem, Root(cls), ty, debug) :
                /\ r.ok
                /\ r.node /= NULL
                /\ r.node \in ChainSlots(r.pools, cls)
                /\ r.node \notin live
                /\ r.grew <=> (pools[cls][1].head = NULL)
          /\ (pools[cls][1].head = NULL)
                => LET e == Extend(pools, mem, Root(cls), debug)
                   IN  /\ e.ok
                       /\ e.pools[cls][1].head /= NULL
                       /\ Len(e.pools[cls]) = Len(pools[cls]) + 1

\* an allocation found the cursor empty for the second time in its class,
\* grew the chain and returned a slot
C11_Witness ==
    /\ ev.op = "alloc"
    /\ ev.grew
    /\ Len(pools[ev.cls]) = 3
    /\ ev.addr \in ClassLive(ev.cls)

\* ------------------------------------------- allocations without release
\* number of program variables of the filling workload
MaxFillVars == 5

\* `let allocator = Allocator::with_capacity(cap);`
InitFill ==
    /\ debug \in BOOLEAN
    /\ \E cap \in 1..MaxCap :
        /\ pools = AllocatorPools(cap)
        /\ mem = AllocatorMem(cap)
    /\ vars = [x \in 1..MaxFillVars |-> NoHandle]
    /\ live = {}
    /\ released = [cls \in Classes |-> <<>>]
    /\ ev = NoEvent
    /\ peak = [cls \in Classes |-> 0]

\* values are allocated one after the other and none is released
NextFill ==
    \E ty \in ChurnTypes, elem \in Vals, x \in DOMAIN vars :
        /\ \A y \in DOMAIN vars : y < x => vars[y] /= NoHandle
        /\ Alloc(x, ty, elem)

SpecFill == InitFill /\ [][NextFill]_vars_all

\* the number of slots of a Pool's buffer, as Pool::extend computes it
NumSlots(self) == self.pool.capacity \div self.ele_size

\* C12: with Allocator::with_capacity(n) every buffer of every class, the
\* initial one and the ones appended by growth, holds exactly n slots of the
\* size of its class.  With no release, k live values of a class occupy
\* ceil(k / n) buffers (one when k = 0), and the allocation that has just
\* made the live count k grew the chain exactly when k = j * n + 1, j >= 1,
\* that growth being the j-th of the class.
C12_CapacityGrowth ==
    LET n == NumSlots(pools[8][1])
    IN  /\ n \in 1..MaxCap
        /\ \A cls \in Classes :
              /\ \A i \in 1..Len(pools[cls]) :
                    /\ pools[cls][i].ele_size = cls
                    /\ pools[cls][i].pool.capacity = n * cls
                    /\ Cardinality(SlotAddrs(pools[cls][i].pool.ptr,
                                             NumSlots(pools[cls][i]), cls)) = n
              /\ Cardinality(ChainSlots(pools, cls)) = n * Len(pools[cls])
              /\ LET k == Cardinality(ClassLive(cls))
                 IN  Len(pools[cls]) = IF k = 0 THEN 1 ELSE (k + n - 1) \div n
        /\ (ev.op = "alloc")
              => LET k == Cardinality(ClassLive(ev.cls))
                 IN  /\ ev.grew <=> (k > n /\ (k - 1) % n = 0)
                     /\ ev.grew => Len(pools[ev.cls]) = ((k - 1) \div n) + 1

\* with buffers of two slots, the fifth value of a class has just been
\* allocated with none released: the chain has grown for the second time
C12_Witness ==
    /\ ev.op = "alloc"
    /\ ev.grew
    /\ NumSlots(pools[ev.cls][1]) = 2
    /\ Cardinality(ClassLive(ev.cls)) = 5
    /\ Len(pools[ev.cls]) = 3

\* ------------------------------------------------ the default constructor
\* `let allocator = Allocator::new();`
InitNew ==
    /\ debug \in BOOLEAN
    /\ pools = AllocatorNewPools
    /\ mem = AllocatorNewMem
    /\ vars = [x \in Vars |-> NoHandle]
    /\ live = {}
    /\ released = [cls \in Classes |-> <<>>]
    /\ ev = NoEvent
    /\ peak = [cls \in Classes |-> 0]

\* values of the two test types are allocated, overwritten and released
NextNew ==
    \/ \E ty \in ChurnTypes, elem \in Vals, x \in DOMAIN vars : Alloc(x, ty, elem)
    \/ \E x \in DOMAIN vars : Drop(x)
    \/ \E x \in DOMAIN vars, v \in Vals : Write(x, v)

SpecNew == InitNew /\ [][NextNew]_vars_all

\* C13: after Allocator::new() the initial buffer of every class c occupies
\* 4096 bytes: it holds 4096 / c slots (512, 256, 128, 64, 32, 16), the
\* division leaves no remainder, and when the allocator is created the free
\* list runs through all of these slots in address order.
C13_DefaultSlots ==
    \A cls \in Classes :
        LET root == pools[cls][1]
            slots == SlotAddrs(root.pool.ptr, NumSlots(root), cls)
        IN  /\ 4096 % cls = 0
            /\ PoolNewPrecondition(cls)
            /\ root.ele_size = cls
            /\ root.pool.capacity = 4096
            /\ NumSlots(root) = 4096 \div cls
            /\ NumSlots(root) * cls = 4096
            /\ NumSlots(root) = CASE cls = 8 -> 512 [] cls = 16 -> 256
                                  [] cls = 32 -> 128 [] cls = 64 -> 64
                                  [] cls = 128 -> 32 [] cls = 256 -> 16
            /\ Cardinality(slots) = 4096 \div cls
            /\ slots \subseteq DOMAIN mem
            /\ (ev = NoEvent)
                  => /\ root.head = root.pool.ptr
                     /\ \A a \in slots :
                           /\ mem[a].tag = "link"
                           /\ mem[a].next = IF a + cls = root.pool.ptr + 4096
                                               THEN NULL ELSE a + cls

\* a value has been allocated from a default allocator whose classes hold
\* 512 and 16 slots at the two ends
C13_Witness ==
    /\ ev.op = "alloc"
    /\ ev.cls = 128
    /\ Len(pools[ev.cls]) = 1
    /\ NumSlots(pools[8][1]) = 512
    /\ NumSlots(pools[256][1]) = 16
    /\ LiveVars = DOMAIN vars

\* ------------------------------------------------------ creating arenas
\* the slot sizes and capacities a creation is called with
CreateSizes == {4, 8, 16, 24}

CreateNums == 0..MaxCap

\* the types allocated from the arenas created
CreateTypes == ChurnTypes \cup {[size |-> 8, align |-> 8]}

\* nothing has been created yet
InitCreate ==
    /\ debug \in BOOLEAN
    /\ pools = <<>>
    /\ mem = <<>>
    /\ released = <<>>
    /\ vars = [x \in Vars |-> NoHandle]
    /\ live = {}
    /\ ev = NoEvent
    /\ peak = [cls \in Classes |-> 0]

\* `let pool = Pool::with_capacity(num, ele_size);`  In the event of a
\* creation cls is the slot size and val the capacity asked for.
CreatePool(num, ele_size) ==
    /\ DOMAIN pools = {}
    /\ \E r \in PoolWithCapacity(Base(ele_size, 1), num, ele_size, 1, debug) :
        /\ pools' = IF r.ok THEN pools @@ (ele_size :> <<r.pool>>) ELSE pools
        /\ mem' = IF r.ok THEN mem @@ r.mem ELSE mem
        /\ released' = IF r.ok THEN released @@ (ele_size :> <<>>) ELSE released
        /\ ev' = Ev(IF r.ok THEN "create" ELSE "abort", 0, ele_size, NULL,
                    NoType, num, FALSE, FALSE)
    /\ UNCHANGED <<debug, vars, live, peak>>

\* `let allocator = Allocator::with_capacity(cap);`  The event has cls = 0.
CreateAllocator(cap) ==
    /\ DOMAIN pools = {}
    /\ \E r \in AllocatorWithCapacity(cap, debug) :
        /\ pools' = IF r.ok THEN r.pools ELSE pools
        /\ mem' = IF r.ok THEN r.mem ELSE mem
        /\ released' = IF r.ok THEN [cls \in Classes |-> <<>>] ELSE released
        /\ ev' = Ev(IF r.ok THEN "create" ELSE "abort", 0, 0, NULL,
                    NoType, cap, FALSE, FALSE)
    /\ UNCHANGED <<debug, vars, live, peak>>

\* an arena is created, by either constructor, and used while no cursor is
\* empty: a Pool directly, an Allocator through Allocator::alloc
NextCreate ==
    \/ \E num \in CreateNums, ele_size \in CreateSizes : CreatePool(num, ele_size)
    \/ \E cap \in CreateNums : CreateAllocator(cap)
    \/ \E x \in Vars, ty \in CreateTypes :
            /\ Cardinality(DOMAIN pools) = 1
            /\ \A cls \in DOMAIN pools : pools[cls][1].head /= NULL
            /\ AllocDirect(x, ty)
    \/ \E x \in Vars, ty \in CreateTypes, elem \in Vals :
            /\ DOMAIN pools = Classes
            /\ \A cls \in DOMAIN pools : pools[cls][1].head /= NULL
            /\ Alloc(x, ty, elem)
    \/ \E x \in Vars : Drop(x)

SpecCreate == InitCreate /\ [][NextCreate]_vars_all

\* C14 (as claimed): a creation with capacity 0, with a slot size that is
\* not a power of two, or with a slot size below the size of a link ends in
\* a failure: no arena comes to exist and no slot has been linked.
C14_CreationRejects ==
    [][ (/\ ev'.op \in {"create", "abort"}
         /\ \/ ev'.val = 0
            \/ ev'.cls /= 0 /\ ~IsPowerOfTwo(ev'.cls)
            \/ ev'.cls /= 0 /\ ev'.cls < 8)
            => /\ ev'.op = "abort"
               /\ pools' = pools
               /\ mem' = mem
      ]_vars_all

\* --------------------------------------------- Pool::recycle called directly
\* `unsafe { pool.recycle(node) }` with node the address of a slot of the
\* chain, whatever the slot holds.  The histories live and released record
\* what the handles did and are left alone.
RecycleDirect(cls, node) ==
    /\ LET r == Recycle(pools, mem, Root(cls), node)
       IN  /\ pools' = r.pools
           /\ mem' = r.mem
           /\ ev' = Ev(IF r.ok THEN "recycle" ELSE "abort", 0, cls, node,
                       NoType, UnitVal, FALSE, FALSE)
    /\ UNCHANGED <<debug, vars, live, released, peak>>

NextRecycle ==
    \/ \E x \in Vars, ty \in ChurnTypes : AllocDirect(x, ty)
    \/ \E x \in Vars : Drop(x)
    \/ \E cls \in DOMAIN pools :
       \E node \in ChainSlots(pools, cls) : RecycleDirect(cls, node)

SpecRecycle == InitPool /\ [][NextRecycle]_vars_all

\* C15 (as claimed): a recycle of a slot that is already on the free list of
\* its class does not complete: it ends in a failure and leaves the cursor
\* and the slots as they were.
C15_DoubleReleaseFatal ==
    [][ (/\ ev'.op \in {"recycle", "drop", "abort"}
         /\ ev'.addr \in Range(FreeListOf(pools, mem, ev'.cls)))
            => /\ ev'.op = "abort"
               /\ pools' = pools
               /\ mem' = mem
      ]_vars_all

\* C16: the chain of a class gets a buffer in a step exactly when the step
\* is an allocation in that class that finds the root's cursor empty, and
\* then it gets one buffer; the cursor is empty exactly when every slot of
\* every buffer of the chain is held by a live handle, so no buffer is
\* appended while a released slot waits to be handed out again.
C16_GrowthOnlyOnExhaustion ==
    [][ \A cls \in Classes :
          /\ (pools[cls][1].head = NULL)
                <=> (ChainSlots(pools, cls) \subseteq ClassLive(cls))
          /\ Len(pools'[cls]) \in {Len(pools[cls]), Len(pools[cls]) + 1}
          /\ (Len(pools'[cls]) = Len(pools[cls]) + 1)
                <=> /\ ev'.op = "alloc"
                    /\ ev'.cls = cls
                    /\ pools[cls][1].head = NULL
          /\ (Len(pools'[cls]) > Len(pools[cls]))
                => /\ released[cls] = <<>>
                   /\ FreeList(cls) = <<>>
                   /\ ChainSlots(pools, cls) \subseteq live
      ]_vars_all

\* a class with buffers of two slots has just grown: both slots of the first
\* buffer and one of the new buffer are held, the other is at the cursor
C16_Witness ==
    /\ ev.op = "alloc"
    /\ ev.grew
    /\ Len(pools[ev.cls]) = 2
    /\ NumSlots(pools[ev.cls][1]) = 2
    /\ Cardinality(ClassLive(ev.cls)) = 3
    /\ Len(FreeList(ev.cls)) = 1

\* the Pools reached from the Pool at index i through next_pool, in order
RECURSIVE ChainFrom(_, _, _, _)
ChainFrom(ps, cls, i, fuel) ==
    IF i = NoPool \/ fuel = 0 THEN <<>>
    ELSE <<i>> \o ChainFrom(ps, cls, ps[cls][i].next_pool, fuel - 1)

\* the chain of a class: the Pools reached from the root
Chain(ps, cls) == ChainFrom(ps, cls, 1, Len(ps[cls]) + 1)

\* C17: in every state the Pools of a class form an acyclic chain that
\* starts at the root and holds every buffer once; the root's tail marker
\* is the last Pool of the chain and that Pool's next link is none, so the
\* assertion at the start of growth holds.  A growth makes the previous
\* tail own the new Pool, moves the tail marker to it and points the cursor
\* at its first slot (which the allocation then hands out); it lengthens
\* the chain by one.  No step shortens or reorders the chain.
C17_ChainStructure ==
    [][ \A cls \in Classes :
          LET c == Chain(pools, cls)
              d == Chain(pools', cls)
              root == pools[cls][1]
          IN  /\ c = [i \in 1..Len(pools[cls]) |-> i]
              /\ root.tail_pool = c[Len(c)]
              /\ pools[cls][root.tail_pool].next_pool = NoPool
              /\ Len(d) >= Len(c)
              /\ SubSeq(d, 1, Len(c)) = c
              /\ \A i \in 1..Len(pools[cls]) :
                    /\ pools'[cls][i].pool = pools[cls][i].pool
                    /\ pools'[cls][i].ele_size = pools[cls][i].ele_size
              /\ (ev'.op = "alloc" /\ ev'.cls = cls /\ ev'.grew)
                    => LET new == Len(pools[cls]) + 1
                       IN  /\ d = Append(c, new)
                           /\ pools'[cls][root.tail_pool].next_pool = new
                           /\ pools'[cls][1].tail_pool = new
                           /\ pools'[cls][new].next_pool = NoPool
                           /\ Extend(pools, mem, Root(cls), debug).pools[cls][1].head
                                 = pools'[cls][new].pool.ptr
                           /\ ev'.addr = pools'[cls][new].pool.ptr
      ]_vars_all

\* a chain of two Pools has just got its third
C17_Witness ==
    /\ ev.op = "alloc"
    /\ ev.grew
    /\ Chain(pools, ev.cls) = <<1, 2, 3>>
    /\ pools[ev.cls][1].tail_pool = 3
    /\ pools[ev.cls][2].next_pool = 3

\* the Pools of a class with the head and tail_pool fields of every Pool
\* but the root overwritten
Scramble(ps, cls) ==
    [ps EXCEPT ![cls] =
        [i \in 1..Len(@) |->
            IF i = 1 THEN @[i] ELSE [@[i] EXCEPT !.head = NULL, !.tail_pool = 1]]]

\* C18: every live handle records the root Pool of its class, also when its
\* slot lies in a buffer appended by growth, and its release pushes the
\* slot on the root's cursor.  The head and tail_pool fields of a Pool that
\* is not the root are never modified once the Pool is in the chain, and
\* never read: an allocation and a release do the same whatever those
\* fields hold.
C18_RootOnly ==
    [][ /\ \A x \in LiveVars :
              /\ vars[x].pool = Root(vars[x].pool.cls)
              /\ vars[x].node.data \in ChainSlots(pools, vars[x].pool.cls)
              /\ LET h == vars[x]
                     r == DropResult(pools, mem, h)
                     q == DropResult(Scramble(pools, h.pool.cls), mem, h)
                 IN  /\ r.pools[h.pool.cls][1].head = h.node.data
                     /\ r.mem[h.node.data] = Link(pools[h.pool.cls][1].head)
                     /\ q.mem = r.mem
                     /\ q.pools = Scramble(r.pools, h.pool.cls)
        /\ (ev'.op = "drop") => pools'[ev'.cls][1].head = ev'.addr
        /\ \A cls \in Classes :
              /\ \A i \in 2..Len(pools[cls]) :
                    /\ pools'[cls][i].head = pools[cls][i].head
                    /\ pools'[cls][i].tail_pool = pools[cls][i].tail_pool
              /\ \A ty \in FitTypes(cls) :
                    { [r EXCEPT !.pools = Scramble(r.pools, cls)] :
                        r \in PoolAlloc(pools, mem, Root(cls), ty, debug) }
                    = { [r EXCEPT !.pools = Scramble(r.pools, cls)] :
                        r \in PoolAlloc(Scramble(pools, cls), mem, Root(cls),
                                        ty, debug) }
      ]_vars_all

\* the handle of a slot in a growth buffer has just been released: the slot
\* is at the root's cursor
C18_Witness ==
    /\ ev.op = "drop"
    /\ Len(pools[ev.cls]) > 1
    /\ ev.addr \notin SlotAddrs(pools[ev.cls][1].pool.ptr,
                                NumSlots(pools[ev.cls][1]), ev.cls)
    /\ pools[ev.cls][1].head = ev.addr
    /\ pools[ev.cls][2].head = pools[ev.cls][2].pool.ptr

\* C19: in every state each slot of each buffer of a class's chain is either
\* held by exactly one live handle or exactly once on the list at the root's
\* cursor, never both; that list is made of links, has no cycle, ends in
\* none and holds only slots of the chain; so live handles plus free slots
\* are the capacity times the number of buffers.
C19_SlotConservation ==
    \A cls \in Classes :
        LET fl == FreeList(cls)
            slots == ChainSlots(pools, cls)
            lv == ClassLive(cls)
        IN  /\ Range(fl) \cup lv = slots
            /\ Range(fl) \cap lv = {}
            /\ Cardinality(Range(fl)) = Len(fl)
            /\ \A i \in 1..Len(fl) :
                  /\ mem[fl[i]].tag = "link"
                  /\ mem[fl[i]].next = IF i = Len(fl) THEN NULL ELSE fl[i + 1]
            /\ \A a \in lv :
                  Cardinality({x \in LiveVars : /\ vars[x].pool.cls = cls
                                                /\ vars[x].node.data = a}) = 1
            /\ lv = {a \in live : a \in slots}
            /\ Cardinality(lv) + Len(fl)
                  = NumSlots(pools[cls][1]) * Len(pools[cls])

\* in a grown chain one slot of the first buffer and one of the second are
\* free after a release, and two slots are held
C19_Witness ==
    /\ ev.op = "drop"
    /\ Len(pools[ev.cls]) = 2
    /\ Len(FreeList(ev.cls)) = 2
    /\ Cardinality(ClassLive(ev.cls)) = 2
    /\ \E i, j \in 1..2 :
          /\ FreeList(ev.cls)[i] \in SlotAddrs(pools[ev.cls][1].pool.ptr,
                                              NumSlots(pools[ev.cls][1]), ev.cls)
          /\ FreeList(ev.cls)[j] \in SlotAddrs(pools[ev.cls][2].pool.ptr,
                                              NumSlots(pools[ev.cls][2]), ev.cls)

\* ------------------------------------------- the peak of live handles
\* the number of handles of class cls among vs
LiveCount(vs, cls) ==
    Cardinality({x \in DOMAIN vs : vs[x] /= NoHandle /\ vs[x].pool.cls = cls})

\* `let x = allocator.alloc(elem);`, the peak of its class brought up to date
AllocPeak(x, ty, elem) ==
    /\ AllocStep(x, ty, elem)
    /\ peak' = [cls \in Classes |->
                  IF LiveCount(vars', cls) > peak[cls]
                      THEN LiveCount(vars', cls) ELSE peak[cls]]

\* values of the two test types are allocated and released
NextPeak ==
    \/ \E ty \in ChurnTypes, elem \in Vals, x \in DOMAIN vars :
            /\ \A y \in DOMAIN vars : y < x => vars[y] /= NoHandle
            /\ AllocPeak(x, ty, elem)
    \/ \E x \in DOMAIN vars : Drop(x)

SpecPeak == InitChurn /\ [][NextPeak]_vars_all

\* C20: in every state the chain of a class whose buffers hold n slots has
\* max(1, ceil(P / n)) buffers, P being the largest number of handles of
\* the class that were live at once so far.
C20_MinimalGrowth ==
    \A cls \in Classes :
        LET n == NumSlots(pools[cls][1])
            P == peak[cls]
        IN  /\ P >= LiveCount(vars, cls)
            /\ Len(pools[cls]) = IF P = 0 THEN 1 ELSE (P + n - 1) \div n

\* with buffers of two slots, a class whose peak was three has three live
\* values again after a release, the last one allocated without growth
C20_Witness ==
    /\ ev.op = "alloc"
    /\ ~ev.grew
    /\ NumSlots(pools[ev.cls][1]) = 2
    /\ peak[ev.cls] = 3
    /\ LiveCount(vars, ev.cls) = 3
    /\ Len(pools[ev.cls]) = 2

====
